---- MODULE Spec2Model ----
(***************************************************************************)
(* A model of the DailySEOFeed service: the engagement aggregator          *)
(* (server/data_filter.py) fed by the event filter (server/data_stream.py),*)
(* the Jetstream ingest client (server/jetstream.py) with its persisted    *)
(* resume cursor, and the ranked, cursor-paginated feed                    *)
(* (server/algos/daily_seo_feed.py).                                       *)
(*                                                                         *)
(* The specifications of the module:                                       *)
(*   SpecEng     concurrent process_event / update_engagement calls and    *)
(*               the expiry sweep over the posts table;                    *)
(*   SpecStream  the ingest client: connect, deliver, lose the transport,  *)
(*               reconnect, and the cursor row of subscription_state;      *)
(*   SpecFeed    get_posts followed from cursor to cursor over a frozen    *)
(*               posts table;                                              *)
(*   SpecHandle  the ingest client on a transport that stays up;           *)
(*   SpecService what main() starts: the ingest client, the web            *)
(*               application and the clock;                                *)
(*   SpecRoute   process_event called with one event after the other.      *)
(* Time is counted in whole hours.                                         *)
(***************************************************************************)
EXTENDS Integers, Sequences, FiniteSets, TLC

VARIABLES
    posts,      \* committed rows of the posts table, by uri (NoPost: no row)
    nextId,     \* the table's auto-increment id
    rowLock,    \* per uri: the worker whose transaction holds the row lock
    wpc,        \* per worker: position inside process_event/update_engagement
    wcall,      \* per worker: the (uri, engagement_type, author_did) being applied
    wpost,      \* per worker: the `post` object read or created by the call
    wcreated,   \* per worker: the row was inserted by this (uncommitted) call
    now,        \* get_utc_now(), in hours
    nEvents,    \* events routed to update_engagement so far
    outsiderSeen, \* an event of an identity outside the registry was handled
    sent,       \* per uri: the calls routed to update_engagement (history)
    lossy,      \* per uri: a fetch failed or the sweep deleted the row (history)
    \* -- the ingest client and the subscription_state table
    subRow,     \* cursor column of the row service = 'jetstream' (NoRow: no row)
    selfCursor, \* JetstreamClient.cursor, set by the constructor
    conn,       \* where the client is: boot, starting, open, down, fatal, ended
    urlCursor,  \* the cursor parameter of the url of the current connection
    srvPos,     \* position of the next event the server sends on the connection
    head,       \* position of the newest event of the stream
    frames,     \* stack of running on_close calls: the attempt index of each
    failures,   \* failed attempts of on_close since the last success (history)
    lastWait,   \* the last time.sleep of on_close, in seconds (history)
    processed,  \* positions of the events handed to process_event (history)
    redelivered, \* an event was handed to process_event a second time (history)
    lastOkTime, \* time_us of the last message whose cursor UPDATE ran (history)
    wsRaises,   \* the websocket library lets failures propagate out of run_forever
    faulted,    \* the handling of some message has failed (history)
    lastFault,  \* what failed in the handling of the last message ("none": nothing)
    \* -- a client following the feed from page to page
    fLimit,     \* the limit of its get_posts calls
    fCursor,    \* the cursor of its next call: none, eof, or a sort key
    served,     \* the uris of the pages it received, concatenated
    lastPage,   \* the uris of the last page it received
    fCalls,     \* the get_posts calls it made
    tzOffset,   \* utc offset of the server's local time zone, in hours
    \* -- process_event called with one event at a time
    inEvent,    \* the event process_event is running on (NoEvent: not running)
    outCall,    \* the update_engagement call its last run made (NoCall: none)
    \* -- the web application answering getFeedSkeleton
    req,        \* the last request: feed, cursor as sent, limit
    resp,       \* the response to it: status, message, body
    \* -- on_message_handler, statement by statement
    hpc,        \* where the ingest thread is: idle, cursor, process
    hmsg,       \* the position of the message the handler is running on
    started,    \* positions of the messages on_message was called with (history)
    crashes     \* times the process was killed and started again

storeVars == <<posts, nextId, now>>

engVars == <<rowLock, wpc, wcall, wpost, wcreated, nEvents, outsiderSeen,
             sent, lossy>>

streamVars == <<subRow, selfCursor, conn, urlCursor, srvPos, head, frames,
                failures, lastWait, processed, redelivered, lastOkTime, wsRaises,
                   faulted, lastFault>>

feedVars == <<fLimit, fCursor, served, lastPage, fCalls, tzOffset>>

routeVars == <<inEvent, outCall>>

httpVars == <<req, resp>>

syncVars == <<hpc, hmsg, started, crashes>>

vars == <<storeVars, engVars, streamVars, feedVars, routeVars, httpVars,
          syncVars>>

----------------------------------------------------------------------------
(* Bounds of the model *)

MaxEvents == 2
MaxStream == 3
MaxDepth == 2
MaxLimit == 2
MaxCalls == 4
MaxCrashes == 1

(* Program constants *)

POST_LIFETIME_HOURS == 24
RECONNECT_ATTEMPTS == 5
FETCH_ATTEMPTS == 3
LAST_ATTEMPT == 2
WEIGHT_LIKES == 2
WEIGHT_REPOSTS == 3
WEIGHT_COMMENTS == 1
\* SCORE_WEIGHTS 0.4, 0.4, 0.3, in tenths
BASE_ENGAGEMENT_TENTHS == 4
QUORUM_TENTHS == 4
VELOCITY_TENTHS == 3
DECAY_MIDPOINT == 12
DECAY_RATE == 4
RECENT_INTERACTION_WINDOW == 4
\* MIN_ENGAGEMENT_SCORE 0.01, in hundredths
MIN_ENGAGEMENT_SCORE_HUNDREDTHS == 1
MIN_AUTHOR_ENGAGEMENT == 2
\* get_posts clamps limit to 1..100
LIMIT_FLOOR == 1
LIMIT_CEILING == 100
DEFAULT_LIMIT == 20
MS_PER_HOUR == 3600000

\* The model's clock has two instants: the start of the service and one
\* step later, just over the lifetime window, when every row stored before
\* the step is past the window.
TickHours == POST_LIFETIME_HOURS + 1
MaxNow == TickHours

----------------------------------------------------------------------------
(* Universe *)

None == "none"
URIs == {"at://u1", "at://u2"}
AuthorDids == {"did:a1", "did:a2"}          \* author_manager.author_dids
OutsiderDids == {"did:x1"}
DIDs == AuthorDids \cup OutsiderDids
Workers == {1, 2}
Free == 0

Like == "app.bsky.feed.like"
PostColl == "app.bsky.feed.post"
Repost == "app.bsky.feed.repost"
Follow == "app.bsky.graph.follow"
INTERESTED_COLLECTIONS == {Like, PostColl, Repost}

Range(s) == {s[i] : i \in 1..Len(s)}

\* Post (database.py): the columns the aggregator and the ranker use.
NoPost == [id |-> 0, cid |-> 0, indexed_at |-> 0, likes_count |-> 0,
           reposts_count |-> 0, replies_count |-> 0,
           engaged_authors |-> <<>>, interaction_timestamps |-> <<>>]

Exists(p) == p.id # 0

\* The content id client.com.atproto.repo.get_record returns for a uri.
CidOf(uri) == CASE uri = "at://u1" -> 1 [] uri = "at://u2" -> 2 [] OTHER -> 3

----------------------------------------------------------------------------
(* Event filter and router: process_event *)

is_authorMutant(did) == TRUE
is_author(did) == did \in AuthorDids

\* An event as process_event reads it.  target is record.subject.uri for a
\* like or repost and record.reply.parent.uri for a post; hasReply says
\* whether the record has a "reply" key.
EventShape ==
    [kind : {"commit", "identity"},
     hasCommit : BOOLEAN,
     did : DIDs,
     collection : {Like, PostColl, Repost, Follow},
     operation : {"create", "delete"},
     rtype : {Like, PostColl, Repost},
     hasReply : BOOLEAN,
     target : URIs \cup {None}]

\* The events that pass every check of process_event: a like, a repost
\* or a reply by a registry member on a stored or storable uri.
WellFormedEvents ==
    {e \in [kind : {"commit"}, hasCommit : {TRUE}, did : AuthorDids,
            collection : INTERESTED_COLLECTIONS, operation : {"create"},
            rtype : INTERESTED_COLLECTIONS, hasReply : BOOLEAN,
            target : URIs] :
        /\ e.rtype = e.collection
        /\ e.hasReply = (e.collection = PostColl)}

BaseEvent ==
    [kind |-> "commit", hasCommit |-> TRUE, did |-> "did:a1",
     collection |-> Like, operation |-> "create", rtype |-> Like,
     hasReply |-> FALSE, target |-> "at://u1"]

\* One event failing each single check of process_event.
DefectiveEvents ==
    {[BaseEvent EXCEPT !.kind = "identity"],
     [BaseEvent EXCEPT !.hasCommit = FALSE],
     [BaseEvent EXCEPT !.did = "did:x1"],
     [BaseEvent EXCEPT !.did = "did:x1", !.collection = Repost, !.rtype = Repost,
                       !.target = "at://u2"],
     [BaseEvent EXCEPT !.collection = Follow],
     [BaseEvent EXCEPT !.operation = "delete"],
     [BaseEvent EXCEPT !.rtype = Repost],
     [BaseEvent EXCEPT !.target = None],
     [BaseEvent EXCEPT !.collection = PostColl, !.rtype = PostColl],
     [BaseEvent EXCEPT !.collection = PostColl, !.rtype = PostColl,
                       !.hasReply = TRUE, !.target = None]}

Events == WellFormedEvents \cup DefectiveEvents

NoEvent == [BaseEvent EXCEPT !.kind = "none"]

NoCall == [uri |-> None, engagement_type |-> None, author_did |-> None]

EngagementTypeOf(collection) ==
    CASE collection = Like -> "like"
      [] collection = Repost -> "repost"
      [] collection = PostColl -> "reply"

\* The extraction taking the parent of any post.
SubjectUriMutant(ev) ==
    CASE ev.collection = Like -> ev.target
      [] ev.collection = Repost -> ev.target
      [] ev.collection = PostColl -> ev.target
      [] OTHER -> None
SubjectUri(ev) ==
    CASE ev.collection = Like -> ev.target
      [] ev.collection = Repost -> ev.target
      [] ev.collection = PostColl /\ ev.hasReply -> ev.target
      [] OTHER -> None

\* The router without the check of the operation.
RouteMutant(ev) ==
    IF ev.kind # "commit" THEN NoCall
    ELSE IF ~ev.hasCommit THEN NoCall
    ELSE IF ~is_author(ev.did) THEN NoCall
    ELSE IF ev.collection \notin INTERESTED_COLLECTIONS THEN NoCall
    ELSE IF ev.rtype # ev.collection THEN NoCall
    ELSE IF SubjectUri(ev) = None THEN NoCall
    ELSE [uri |-> SubjectUri(ev),
          engagement_type |-> EngagementTypeOf(ev.collection),
          author_did |-> ev.did]
\* The triple process_event hands to tracker.update_engagement, or NoCall.
Route(ev) ==
    IF ev.kind # "commit" THEN NoCall
    ELSE IF ~ev.hasCommit THEN NoCall
    ELSE IF ~is_author(ev.did) THEN NoCall
    ELSE IF ev.collection \notin INTERESTED_COLLECTIONS THEN NoCall
    ELSE IF ev.operation # "create" THEN NoCall
    ELSE IF ev.rtype # ev.collection THEN NoCall
    ELSE IF SubjectUri(ev) = None THEN NoCall
    ELSE [uri |-> SubjectUri(ev),
          engagement_type |-> EngagementTypeOf(ev.collection),
          author_did |-> ev.did]

----------------------------------------------------------------------------
(* Engagement aggregator: update_engagement *)

NoSent == [like |-> 0, repost |-> 0, reply |-> 0, actors |-> {}]

Bump(s, call) ==
    [s EXCEPT ![call.engagement_type] = @ + 1,
              !.actors = @ \cup {call.author_did}]

\* Workers are interchangeable: an event goes to the first idle one.
FirstIdle(w) == \A x \in Workers : wpc[x] = "idle" => ~(x < w)

\* process_event on one event: discard it (nothing but a log line), or
\* enter update_engagement.
ProcessEvent(w, ev) ==
    /\ wpc[w] = "idle"
    /\ FirstIdle(w)
    /\ LET call == Route(ev) IN
         IF call = NoCall
         THEN /\ outsiderSeen' = (outsiderSeen \/ ~is_author(ev.did))
              /\ UNCHANGED <<wpc, wcall, sent, nEvents>>
         ELSE /\ nEvents < MaxEvents
              /\ nEvents' = nEvents + 1
              /\ wpc' = [wpc EXCEPT ![w] = "select"]
              /\ wcall' = [wcall EXCEPT ![w] = call]
              /\ sent' = [sent EXCEPT ![call.uri] = Bump(@, call)]
              /\ UNCHANGED outsiderSeen
    /\ UNCHANGED <<posts, nextId, rowLock, wpost, wcreated, now, lossy>>
    /\ UNCHANGED <<streamVars, feedVars, routeVars, httpVars, syncVars>>

\* The select taking one lock for the whole table, as a tracker that held
\* self._lock around its transaction would.
SelectForUpdateMutant(w) ==
    /\ wpc[w] = "select"
    /\ \A u \in URIs : rowLock[u] = Free
    /\ LET u == wcall[w].uri IN
         IF Exists(posts[u])
         THEN /\ rowLock' = [rowLock EXCEPT ![u] = w]
              /\ wpost' = [wpost EXCEPT ![w] = posts[u]]
              /\ wpc' = [wpc EXCEPT ![w] = "update"]
         ELSE /\ wpc' = [wpc EXCEPT ![w] = "create"]
              /\ UNCHANGED <<rowLock, wpost>>
    /\ UNCHANGED <<posts, nextId, wcall, wcreated, now, nEvents, outsiderSeen, sent, lossy>>
    /\ UNCHANGED <<streamVars, feedVars, routeVars, httpVars, syncVars>>
\* Post.select().where(Post.uri == uri).for_update().first()
\* An existing row is read under its row lock (the read waits while another
\* transaction holds it); a missing row reads as None and locks nothing that
\* keeps another transaction from reading None too.
SelectForUpdate(w) ==
    /\ wpc[w] = "select"
    /\ rowLock[wcall[w].uri] = Free
    /\ LET u == wcall[w].uri IN
         IF Exists(posts[u])
         THEN /\ rowLock' = [rowLock EXCEPT ![u] = w]
              /\ wpost' = [wpost EXCEPT ![w] = posts[u]]
              /\ wpc' = [wpc EXCEPT ![w] = "update"]
         ELSE /\ wpc' = [wpc EXCEPT ![w] = "create"]
              /\ UNCHANGED <<rowLock, wpost>>
    /\ UNCHANGED <<posts, nextId, wcall, wcreated, now, nEvents, outsiderSeen, sent, lossy>>
    /\ UNCHANGED <<streamVars, feedVars, routeVars, httpVars, syncVars>>

NewPost(id, uri, t) ==
    [id |-> id, cid |-> CidOf(uri), indexed_at |-> t, likes_count |-> 0,
     reposts_count |-> 0, replies_count |-> 0,
     engaged_authors |-> <<>>, interaction_timestamps |-> <<>>]

\* _fetch_post_content: up to FETCH_ATTEMPTS calls of get_record; outcomes[i]
\* says whether call i returns.  The content of the first call that
\* returns, or None once the attempt numbered LAST_ATTEMPT has raised.
RECURSIVE FetchFrom(_, _)
FetchFrom(outcomes, attempt) ==
    IF attempt >= FETCH_ATTEMPTS THEN None
    ELSE IF outcomes[attempt + 1] THEN "content"
    ELSE IF attempt = LAST_ATTEMPT THEN None
    ELSE FetchFrom(outcomes, attempt + 1)

FetchOutcomes == [1..FETCH_ATTEMPTS -> BOOLEAN]

fetch_post_content(outcomes) == FetchFrom(outcomes, 0)

\* The fetch failed and update_engagement writes a row all the same.
FetchFailMutant(w) ==
    /\ wpc[w] = "create"
    /\ \E outcomes \in FetchOutcomes : fetch_post_content(outcomes) = None
    /\ posts' = [posts EXCEPT ![wcall[w].uri] = NewPost(nextId, wcall[w].uri, now)]
    /\ wpc' = [wpc EXCEPT ![w] = "idle"]
    /\ wcall' = [wcall EXCEPT ![w] = NoCall]
    /\ lossy' = [lossy EXCEPT ![wcall[w].uri] = TRUE]
    /\ UNCHANGED <<nextId, rowLock, wpost, wcreated, now, nEvents,
                   outsiderSeen, sent>>
    /\ UNCHANGED <<streamVars, feedVars, routeVars, httpVars, syncVars>>
\* _fetch_post_content returned None after its three attempts:
\* update_engagement returns, nothing is written.
FetchFail(w) ==
    /\ wpc[w] = "create"
    /\ \E outcomes \in FetchOutcomes : fetch_post_content(outcomes) = None
    /\ wpc' = [wpc EXCEPT ![w] = "idle"]
    /\ wcall' = [wcall EXCEPT ![w] = NoCall]
    /\ lossy' = [lossy EXCEPT ![wcall[w].uri] = TRUE]
    /\ UNCHANGED <<posts, nextId, rowLock, wpost, wcreated, now, nEvents,
                   outsiderSeen, sent>>
    /\ UNCHANGED <<streamVars, feedVars, routeVars, httpVars, syncVars>>

\* _fetch_post_content returned the content and Post.create(...) inserted
\* the row: the insert holds the new row's lock until commit.
CreateOk(w) ==
    /\ wpc[w] = "create"
    /\ \E outcomes \in FetchOutcomes : fetch_post_content(outcomes) # None
    /\ LET u == wcall[w].uri IN
         /\ rowLock[u] = Free
         /\ ~Exists(posts[u])
         /\ rowLock' = [rowLock EXCEPT ![u] = w]
         /\ wpost' = [wpost EXCEPT ![w] = NewPost(nextId, u, now)]
    /\ nextId' = nextId + 1
    /\ wcreated' = [wcreated EXCEPT ![w] = TRUE]
    /\ wpc' = [wpc EXCEPT ![w] = "update"]
    /\ UNCHANGED <<posts, wcall, now, nEvents, outsiderSeen, sent, lossy>>
    /\ UNCHANGED <<streamVars, feedVars, routeVars, httpVars, syncVars>>

\* The content was fetched, and Post.create(...) runs when another
\* transaction has committed a row for the uri since this one read None: uri is unique, the insert raises, the
\* except clause logs it and update_engagement returns.
CreateDuplicate(w) ==
    /\ wpc[w] = "create"
    /\ \E outcomes \in FetchOutcomes : fetch_post_content(outcomes) # None
    /\ rowLock[wcall[w].uri] = Free
    /\ Exists(posts[wcall[w].uri])
    /\ wpc' = [wpc EXCEPT ![w] = "idle"]
    /\ wcall' = [wcall EXCEPT ![w] = NoCall]
    /\ UNCHANGED <<posts, nextId, rowLock, wpost, wcreated, now, nEvents,
                   outsiderSeen, sent, lossy>>
    /\ UNCHANGED <<streamVars, feedVars, routeVars, httpVars, syncVars>>

IncrementMutant(n) == n - 1
Increment(n) == n + 1

ShouldAppendMutant(author_did, post) == author_did # None
ShouldAppend(author_did, post) ==
    author_did # None /\ author_did \notin Range(post.engaged_authors)

\* update_data without the interaction_timestamps key.
UpdatedRowQuorumOnlyMutant(row, post, call, t) ==
    LET r1 == CASE call.engagement_type = "like" ->
                     [row EXCEPT !.likes_count = Increment(@)]
                [] call.engagement_type = "repost" ->
                     [row EXCEPT !.reposts_count = Increment(@)]
                [] call.engagement_type = "reply" ->
                     [row EXCEPT !.replies_count = Increment(@)]
                [] OTHER -> row
    IN IF ShouldAppend(call.author_did, post)
       THEN [r1 EXCEPT !.engaged_authors = Append(post.engaged_authors, call.author_did)]
       ELSE r1
\* update_data with indexed_at set to the time of the engagement.
UpdatedRowRefreshMutant(row, post, call, t) ==
    LET r1 == CASE call.engagement_type = "like" ->
                     [row EXCEPT !.likes_count = Increment(@), !.indexed_at = t]
                [] call.engagement_type = "repost" ->
                     [row EXCEPT !.reposts_count = Increment(@), !.indexed_at = t]
                [] call.engagement_type = "reply" ->
                     [row EXCEPT !.replies_count = Increment(@), !.indexed_at = t]
                [] OTHER -> row
    IN IF ShouldAppend(call.author_did, post)
       THEN [r1 EXCEPT !.engaged_authors = Append(post.engaged_authors, call.author_did),
                       !.interaction_timestamps = Append(post.interaction_timestamps, t)]
       ELSE r1
\* update_data applied to the stored row `row`; `post` is the object the
\* call read or created.
UpdatedRow(row, post, call, t) ==
    LET r1 == CASE call.engagement_type = "like" ->
                     [row EXCEPT !.likes_count = Increment(@)]
                [] call.engagement_type = "repost" ->
                     [row EXCEPT !.reposts_count = Increment(@)]
                [] call.engagement_type = "reply" ->
                     [row EXCEPT !.replies_count = Increment(@)]
                [] OTHER -> row
    IN IF ShouldAppend(call.author_did, post)
       THEN [r1 EXCEPT !.engaged_authors = Append(post.engaged_authors, call.author_did),
                       !.interaction_timestamps = Append(post.interaction_timestamps, t)]
       ELSE r1

\* Post.update(**update_data).where(Post.id == post.id).execute(), then the
\* transaction commits and the row lock is released.
UpdateAndCommit(w) ==
    /\ wpc[w] = "update"
    /\ LET u == wcall[w].uri
           row == IF wcreated[w] THEN wpost[w] ELSE posts[u]
       IN /\ rowLock[u] = w
          /\ posts' = [posts EXCEPT ![u] = UpdatedRow(row, wpost[w], wcall[w], now)]
          /\ rowLock' = [rowLock EXCEPT ![u] = Free]
    /\ wpc' = [wpc EXCEPT ![w] = "idle"]
    /\ wcall' = [wcall EXCEPT ![w] = NoCall]
    /\ wpost' = [wpost EXCEPT ![w] = NoPost]
    /\ wcreated' = [wcreated EXCEPT ![w] = FALSE]
    /\ UNCHANGED <<nextId, now, nEvents, outsiderSeen, sent, lossy>>
    /\ UNCHANGED <<streamVars, feedVars, routeVars, httpVars, syncVars>>

\* The failed statement handled outside a transaction: what the call had
\* inserted stays in the table.
UpdateFailsMutant(w) ==
    /\ wpc[w] = "update"
    /\ LET u == wcall[w].uri
       IN /\ rowLock[u] = w
          /\ posts' = IF wcreated[w] THEN [posts EXCEPT ![u] = wpost[w]] ELSE posts
          /\ rowLock' = [rowLock EXCEPT ![u] = Free]
          /\ lossy' = [lossy EXCEPT ![u] = TRUE]
    /\ wpc' = [wpc EXCEPT ![w] = "idle"]
    /\ wcall' = [wcall EXCEPT ![w] = NoCall]
    /\ wpost' = [wpost EXCEPT ![w] = NoPost]
    /\ wcreated' = [wcreated EXCEPT ![w] = FALSE]
    /\ UNCHANGED <<nextId, now, nEvents, outsiderSeen, sent>>
    /\ UNCHANGED <<streamVars, feedVars, routeVars, httpVars, syncVars>>
\* A statement after the select or the insert raises (the UPDATE fails):
\* the exception leaves `with db.atomic()`, which rolls the transaction
\* back, an inserted row included, and releases its locks; the except
\* clause logs it and update_engagement returns.  The auto-increment value
\* the insert took is not given back.
UpdateFails(w) ==
    /\ wpc[w] = "update"
    /\ LET u == wcall[w].uri
       IN /\ rowLock[u] = w
          /\ rowLock' = [rowLock EXCEPT ![u] = Free]
          /\ lossy' = [lossy EXCEPT ![u] = TRUE]
    /\ wpc' = [wpc EXCEPT ![w] = "idle"]
    /\ wcall' = [wcall EXCEPT ![w] = NoCall]
    /\ wpost' = [wpost EXCEPT ![w] = NoPost]
    /\ wcreated' = [wcreated EXCEPT ![w] = FALSE]
    /\ UNCHANGED <<posts, nextId, now, nEvents, outsiderSeen, sent>>
    /\ UNCHANGED <<streamVars, feedVars, routeVars, httpVars, syncVars>>

Expired(p, t) == Exists(p) /\ p.indexed_at < t - POST_LIFETIME_HOURS

\* clean_old_posts: Post.delete().where(Post.indexed_at < cutoff)
CleanOldPosts ==
    /\ \E u \in URIs : Expired(posts[u], now)
    /\ \A u \in URIs : Expired(posts[u], now) => rowLock[u] = Free
    /\ posts' = [u \in URIs |-> IF Expired(posts[u], now) THEN NoPost ELSE posts[u]]
    /\ lossy' = [u \in URIs |-> lossy[u] \/ Expired(posts[u], now)]
    /\ UNCHANGED <<nextId, rowLock, wpc, wcall, wpost, wcreated, now, nEvents, outsiderSeen, sent>>
    /\ UNCHANGED <<streamVars, feedVars, routeVars, httpVars, syncVars>>

Tick ==
    /\ now + TickHours <= MaxNow
    /\ now' = now + TickHours
    /\ UNCHANGED <<posts, nextId, rowLock, wpc, wcall, wpost, wcreated,
                   nEvents, outsiderSeen, sent, lossy>>
    /\ UNCHANGED <<streamVars, feedVars, routeVars, httpVars, syncVars>>

----------------------------------------------------------------------------
(* Ingest client: JetstreamClient, on_message_handler, run_jetstream *)

\* subscription_state has no row for 'jetstream' / its cursor column is NULL.
NoRow == -1
NullCursor == 0

\* state.cursor if state and state.cursor is not None else None (0: None)
CursorOrNone(row) == IF row = NoRow \/ row = NullCursor THEN 0 ELSE row

\* The event at a position of the stream; its time_us is the position.
EventAt(t) ==
    CASE t % 4 = 1 -> [BaseEvent EXCEPT !.kind = "identity", !.hasCommit = FALSE]
      [] t % 4 = 2 -> BaseEvent
      [] t % 4 = 3 -> [BaseEvent EXCEPT !.did = "did:a2", !.collection = Repost,
                                        !.rtype = Repost]
      [] OTHER -> [BaseEvent EXCEPT !.did = "did:x1"]

\* run_jetstream: read the stored cursor, construct the client, call start().
RunJetstream ==
    /\ conn = "boot"
    /\ selfCursor' = CursorOrNone(subRow)
    /\ conn' = "starting"
    /\ UNCHANGED <<subRow, urlCursor, srvPos, head, frames, failures, lastWait,
                   processed, redelivered, lastOkTime, wsRaises,
                   faulted, lastFault>>
    /\ UNCHANGED <<storeVars, engVars, feedVars, routeVars, httpVars, syncVars>>

\* _build_url: the cursor parameter of the url (0: no cursor parameter).
BuildUrlCursor == selfCursor

\* start(): the url is built and the connection opens.  With a cursor the
\* server replays the events after it, without one it sends new events only.
ConnectOk ==
    /\ conn = "starting"
    /\ conn' = "open"
    /\ urlCursor' = BuildUrlCursor
    /\ srvPos' = IF BuildUrlCursor = 0 THEN head + 1 ELSE BuildUrlCursor + 1
    /\ failures' = 0
    /\ UNCHANGED <<subRow, selfCursor, head, frames, lastWait, processed,
                   redelivered, lastOkTime, wsRaises,
                   faulted, lastFault>>
    /\ UNCHANGED <<storeVars, engVars, feedVars, routeVars, httpVars, syncVars>>

\* start(): the connection cannot be opened.  Either the failure comes out
\* of run_forever as an exception (run_jetstream re-raises it, on_close
\* catches it and goes to its next attempt), or the library reports it by
\* calling on_close again from inside the failed start().
ConnectFails ==
    /\ conn = "starting"
    /\ failures' = IF frames = <<>> THEN failures ELSE failures + 1
    /\ IF wsRaises
       THEN IF frames = <<>>
            THEN conn' = "fatal" /\ UNCHANGED frames
            ELSE /\ conn' = "down"
                 /\ frames' = [frames EXCEPT ![Len(frames)] = @ + 1]
       ELSE /\ Len(frames) < MaxDepth
            /\ frames' = Append(frames, 0)
            /\ conn' = "down"
    /\ UNCHANGED <<subRow, selfCursor, urlCursor, srvPos, head, lastWait,
                   processed, redelivered, lastOkTime, wsRaises,
                   faulted, lastFault>>
    /\ UNCHANGED <<storeVars, engVars, feedVars, routeVars, httpVars, syncVars>>

\* The transport of an open connection is lost: run_forever calls on_close.
TransportLoss ==
    /\ conn = "open"
    /\ Len(frames) < MaxDepth
    /\ frames' = Append(frames, 0)
    /\ conn' = "down"
    /\ UNCHANGED <<subRow, selfCursor, urlCursor, srvPos, head, failures,
                   lastWait, processed, redelivered, lastOkTime, wsRaises,
                   faulted, lastFault>>
    /\ UNCHANGED <<storeVars, engVars, feedVars, routeVars, httpVars, syncVars>>

\* on_close, one turn of its loop: wait_time = 2**attempt, sleep, start().
SleepAndStart ==
    /\ conn = "down"
    /\ frames # <<>>
    /\ frames[Len(frames)] < RECONNECT_ATTEMPTS
    /\ lastWait' = 2 ^ frames[Len(frames)]
    /\ conn' = "starting"
    /\ UNCHANGED <<subRow, selfCursor, urlCursor, srvPos, head, frames, failures,
                   processed, redelivered, lastOkTime, wsRaises,
                   faulted, lastFault>>
    /\ UNCHANGED <<storeVars, engVars, feedVars, routeVars, httpVars, syncVars>>

\* on_close, the else of its loop: raise ConnectionError.  The exception
\* leaves the on_close call; it goes up through the run_forever that called
\* it into the start() of the enclosing on_close, which catches it as a
\* failed attempt, or, with no enclosing on_close, out of the first start()
\* to run_jetstream.  A library that catches what its callbacks raise ends
\* every run_forever normally instead.
Exhausted ==
    /\ conn = "down"
    /\ frames # <<>>
    /\ frames[Len(frames)] = RECONNECT_ATTEMPTS
    /\ IF wsRaises
       THEN IF Len(frames) = 1
            THEN /\ frames' = <<>>
                 /\ conn' = "fatal"
            ELSE /\ frames' = [SubSeq(frames, 1, Len(frames) - 1)
                                 EXCEPT ![Len(frames) - 1] = @ + 1]
                 /\ conn' = "down"
       ELSE /\ frames' = <<>>
            /\ conn' = "ended"
    /\ UNCHANGED <<subRow, selfCursor, urlCursor, srvPos, head, failures,
                   lastWait, processed, redelivered, lastOkTime, wsRaises,
                   faulted, lastFault>>
    /\ UNCHANGED <<storeVars, engVars, feedVars, routeVars, httpVars, syncVars>>

\* on_message_handler, the cursor part: UPDATE subscription_state SET
\* cursor = time_us WHERE service = 'jetstream'.  The statement changes the
\* rows that match; an error in it is logged and swallowed.
CursorAfter(row, time_us, dbOk) ==
    IF time_us = 0 THEN row
    ELSE IF ~dbOk THEN row
    ELSE IF row = NoRow THEN NoRow
    ELSE time_us

\* process_event run to completion by the single ingest thread: the routed
\* call reads the row, creates it when missing and the fetch succeeds, and
\* applies update_data.
AppliedPosts(ps, call, t, id, fetchOk) ==
    IF call = NoCall THEN ps
    ELSE IF Exists(ps[call.uri])
    THEN [ps EXCEPT ![call.uri] = UpdatedRow(@, @, call, t)]
    ELSE IF fetchOk
    THEN [ps EXCEPT ![call.uri] =
            UpdatedRow(NewPost(id, call.uri, t), NewPost(id, call.uri, t), call, t)]
    ELSE ps

\* What can fail in the handling of one message: json.loads in on_message,
\* the callback before its first statement, the cursor UPDATE, the
\* statements of update_engagement.  Each is caught: by on_message, by
\* on_message_handler, by update_engagement.
Faults == {"none", "json", "handler", "cursor", "aggregation"}

\* The except clauses fail to keep a decoding error inside on_message.
OnMessageOutcomeMutant(fault) == IF fault = "json" THEN "down" ELSE "open"
\* Where the connection is after on_message has run on a message: every
\* failure is caught on the way, so run_forever reads on.
OnMessageOutcome(fault) == "open"

\* on_message -> on_message_handler -> process_event for the next message
\* of an open connection.
Deliver ==
    /\ conn = "open"
    /\ srvPos <= head
    /\ \E fault \in Faults, fetchOk \in BOOLEAN :
         LET time_us == srvPos
             handled == fault \notin {"json", "handler"}
             dbOk == fault # "cursor"
             call == IF handled /\ fault # "aggregation"
                     THEN Route(EventAt(srvPos)) ELSE NoCall
         IN /\ fault = "aggregation" => Route(EventAt(srvPos)) # NoCall
            /\ subRow' = IF handled THEN CursorAfter(subRow, time_us, dbOk) ELSE subRow
            /\ lastOkTime' = IF handled /\ dbOk THEN time_us ELSE lastOkTime
            /\ posts' = AppliedPosts(posts, call, now, nextId, fetchOk)
            /\ nextId' = IF posts' # posts /\ ~Exists(posts[call.uri])
                         THEN nextId + 1 ELSE nextId
            /\ processed' = IF handled THEN processed \cup {srvPos} ELSE processed
            /\ redelivered' = (redelivered \/ (handled /\ srvPos \in processed))
            /\ lastFault' = fault
            /\ faulted' = (faulted \/ fault # "none")
            /\ conn' = OnMessageOutcome(fault)
    /\ srvPos' = srvPos + 1
    /\ UNCHANGED <<selfCursor, urlCursor, head, frames, failures, lastWait,
                   wsRaises, now>>
    /\ UNCHANGED <<engVars, feedVars, routeVars, httpVars, syncVars>>

\* The network produces the next event of the stream.
Produce ==
    /\ head < MaxStream
    /\ head' = head + 1
    /\ UNCHANGED <<subRow, selfCursor, conn, urlCursor, srvPos, frames, failures,
                   lastWait, processed, redelivered, lastOkTime, wsRaises,
                   faulted, lastFault>>
    /\ UNCHANGED <<storeVars, engVars, feedVars, routeVars, httpVars, syncVars>>

----------------------------------------------------------------------------
(* on_message and on_message_handler, statement by statement *)

\* run_forever handing each frame to a thread of its own: the next message
\* is read while the callback of the one before is running.
ReadMessageMutant ==
    /\ conn = "open"
    /\ srvPos <= head
    /\ hmsg' = srvPos
    /\ started' = started \cup {srvPos}
    /\ hpc' = "cursor"
    /\ srvPos' = srvPos + 1
    /\ UNCHANGED <<subRow, selfCursor, conn, urlCursor, head, frames, failures,
                   lastWait, processed, redelivered, lastOkTime, wsRaises,
                   faulted, lastFault, crashes>>
    /\ UNCHANGED <<storeVars, engVars, feedVars, routeVars, httpVars>>
\* run_forever reads the next message of the open connection and calls
\* on_message with it, which decodes it and calls on_message_handler.  The
\* read loop is the thread the callback runs on: it reads again when the
\* callback has returned.
ReadMessage ==
    /\ conn = "open"
    /\ hpc = "idle"
    /\ srvPos <= head
    /\ hmsg' = srvPos
    /\ started' = started \cup {srvPos}
    /\ hpc' = "cursor"
    /\ srvPos' = srvPos + 1
    /\ UNCHANGED <<subRow, selfCursor, conn, urlCursor, head, frames, failures,
                   lastWait, processed, redelivered, lastOkTime, wsRaises,
                   faulted, lastFault, crashes>>
    /\ UNCHANGED <<storeVars, engVars, feedVars, routeVars, httpVars>>

\* on_message_handler, its first part: time_us = event.get("time_us") and
\* the cursor UPDATE in a transaction of its own, an error of which is
\* logged.
HandlerCursor ==
    /\ hpc = "cursor"
    /\ \E dbOk \in BOOLEAN :
         /\ subRow' = CursorAfter(subRow, hmsg, dbOk)
         /\ lastOkTime' = IF dbOk THEN hmsg ELSE lastOkTime
    /\ hpc' = "process"
    /\ UNCHANGED <<selfCursor, conn, urlCursor, srvPos, head, frames, failures,
                   lastWait, processed, redelivered, wsRaises, faulted,
                   lastFault, hmsg, started, crashes>>
    /\ UNCHANGED <<storeVars, engVars, feedVars, routeVars, httpVars>>

\* on_message_handler, its second part: process_event(event); then the
\* handler and on_message return.
HandlerProcess ==
    /\ hpc = "process"
    /\ \E fetchOk \in BOOLEAN :
         LET call == Route(EventAt(hmsg))
         IN /\ posts' = AppliedPosts(posts, call, now, nextId, fetchOk)
            /\ nextId' = IF posts' # posts /\ ~Exists(posts[call.uri])
                         THEN nextId + 1 ELSE nextId
    /\ processed' = processed \cup {hmsg}
    /\ redelivered' = (redelivered \/ hmsg \in processed)
    /\ hpc' = "idle"
    /\ hmsg' = 0
    /\ UNCHANGED <<subRow, selfCursor, conn, urlCursor, srvPos, head, frames,
                   failures, lastWait, lastOkTime, wsRaises, faulted, lastFault,
                   started, crashes, now>>
    /\ UNCHANGED <<engVars, feedVars, routeVars, httpVars>>

\* The process is killed, at any statement, and main() is run again: what
\* the process held in memory is gone, the tables are as they were.
Crash ==
    /\ crashes < MaxCrashes
    /\ conn \in {"starting", "open"}
    /\ crashes' = crashes + 1
    /\ conn' = "boot"
    /\ selfCursor' = 0
    /\ urlCursor' = 0
    /\ srvPos' = 0
    /\ hpc' = "idle"
    /\ hmsg' = 0
    /\ UNCHANGED <<subRow, head, frames, failures, lastWait, processed,
                   redelivered, lastOkTime, wsRaises, faulted, lastFault,
                   started>>
    /\ UNCHANGED <<storeVars, engVars, feedVars, routeVars, httpVars>>

----------------------------------------------------------------------------
(* process_event called by the single ingest thread, one event at a time *)

\* on_message_handler calls process_event(event).
EventArrives ==
    /\ inEvent = NoEvent
    /\ nEvents < MaxEvents
    /\ \E ev \in EventShape : inEvent' = ev
    /\ outCall' = NoCall
    /\ nEvents' = nEvents + 1
    /\ UNCHANGED <<rowLock, wpc, wcall, wpost, wcreated, outsiderSeen, sent, lossy>>
    /\ UNCHANGED <<storeVars, streamVars, feedVars, httpVars, syncVars>>

\* process_event runs to its return: the checks, the subject extraction and
\* the update_engagement call, if it makes one.
ProcessEventReturns ==
    /\ inEvent # NoEvent
    /\ \E fetchOk \in BOOLEAN :
         LET call == Route(inEvent)
         IN /\ outCall' = call
            /\ posts' = AppliedPosts(posts, call, now, nextId, fetchOk)
            /\ nextId' = IF posts' # posts /\ ~Exists(posts[call.uri])
                         THEN nextId + 1 ELSE nextId
    /\ inEvent' = NoEvent
    /\ UNCHANGED <<now, engVars, streamVars, feedVars, httpVars, syncVars>>

----------------------------------------------------------------------------
(* Scoring engine and feed paginator: PostRanker *)

FeedURIs == URIs \cup {"at://u3"}

SetMax(S) == IF S = {} THEN 0 ELSE CHOOSE x \in S : \A y \in S : y <= x
Positive(n) == IF n > 0 THEN n ELSE 1

\* 1 / (1 + exp((age_hours - DECAY_MIDPOINT) / DECAY_RATE)) in ten-thousandths,
\* for whole hours of age from 0 on.
DecayTable ==
    <<9526, 9399, 9241, 9047, 8808, 8520, 8176, 7773, 7311, 6792, 6225,
      5622, 5000, 4378, 3775, 3208, 2689, 2227, 1824, 1480, 1192, 953, 759,
      601, 474, 373, 293, 230, 180, 141, 110, 86, 67, 52, 41, 32, 25, 19,
      15, 12, 9, 7, 6, 4, 3, 3, 2, 2, 1>>
DECAY_SCALE == 10000

\* The decay with the sign of the exponent turned.
TimeDecayMutant(age) ==
    IF age + 1 <= Len(DecayTable) THEN DecayTable[Len(DecayTable) - age] ELSE DECAY_SCALE
TimeDecay(age) == IF age + 1 <= Len(DecayTable) THEN DecayTable[age + 1] ELSE 0

\* calculate_velocity, doubled: recent_count + very_recent_count * 0.5
Velocity2(p, t) ==
    2 * Cardinality({i \in 1..Len(p.interaction_timestamps) :
                        t - p.interaction_timestamps[i] <= RECENT_INTERACTION_WINDOW})
    + Cardinality({i \in 1..Len(p.interaction_timestamps) :
                        2 * (t - p.interaction_timestamps[i]) <= RECENT_INTERACTION_WINDOW})

\* build_base_df: engagement_score
Engagement(p) ==
    p.likes_count * WEIGHT_LIKES + p.reposts_count * WEIGHT_REPOSTS
    + p.replies_count * WEIGHT_COMMENTS

\* The select without its where clause.
InLifetimeMutant(p, t) == Exists(p)
\* get_scored_posts: Post.select().where(Post.indexed_at >= cutoff_time)
InLifetime(p, t) == Exists(p) /\ p.indexed_at >= t - POST_LIFETIME_HOURS

\* build_base_df without the gate.
PassesAuthorGateMutant(p) == TRUE
\* build_base_df: the MIN_AUTHOR_ENGAGEMENT gate
PassesAuthorGate(p) == Len(p.engaged_authors) >= MIN_AUTHOR_ENGAGEMENT

\* The rows of the data frame build_base_df returns.
BaseRows(ps, t) ==
    {u \in DOMAIN ps : InLifetime(ps[u], t) /\ PassesAuthorGate(ps[u])}

\* normalize_scores and calculate_final_scores.  final_score is
\* mean(engagement_norm * 0.4, quorum_norm * 0.4, velocity_norm * 0.3)
\* * time_decay, each norm being the value over the maximum of the data
\* frame (0.0 when that maximum is 0).  FinalScoreNum(ps, t, u) over
\* FinalScoreDen(ps, t) is that number, the denominator being the same for
\* every row of the frame.
EngMax(ps, t) == SetMax({Engagement(ps[u]) : u \in BaseRows(ps, t)})
VelMax(ps, t) == SetMax({Velocity2(ps[u], t) : u \in BaseRows(ps, t)})
QuoMax(ps, t) ==
    IF Cardinality(AuthorDids) > 0
    THEN SetMax({Len(ps[u].engaged_authors) : u \in BaseRows(ps, t)})
    ELSE 0

\* The mean of the three weighted norms, before the decay: WeightedNum over
\* WeightedDen.
WeightedNum(ps, t, u) ==
    LET em == EngMax(ps, t)
        vm == VelMax(ps, t)
        qm == QuoMax(ps, t)
        e == IF em > 0 THEN Engagement(ps[u]) ELSE 0
        v == IF vm > 0 THEN Velocity2(ps[u], t) ELSE 0
        q == IF qm > 0 THEN Len(ps[u].engaged_authors) ELSE 0
    IN BASE_ENGAGEMENT_TENTHS * e * Positive(qm) * Positive(vm)
       + QUORUM_TENTHS * q * Positive(em) * Positive(vm)
       + VELOCITY_TENTHS * v * Positive(em) * Positive(qm)

WeightedDen(ps, t) ==
    3 * 10 * Positive(EngMax(ps, t)) * Positive(QuoMax(ps, t))
      * Positive(VelMax(ps, t))

FinalScoreNum(ps, t, u) == WeightedNum(ps, t, u) * TimeDecay(t - ps[u].indexed_at)

FinalScoreDen(ps, t) == WeightedDen(ps, t) * DECAY_SCALE

\* df[df['final_score'] >= MIN_ENGAGEMENT_SCORE]
PassesScore(ps, t, u) ==
    FinalScoreNum(ps, t, u) * 100 >= MIN_ENGAGEMENT_SCORE_HUNDREDTHS * FinalScoreDen(ps, t)

Qualifying(ps, t) == {u \in BaseRows(ps, t) : PassesScore(ps, t, u)}

\* sort_values(['final_score', 'indexed_at'], ascending=[False, False]):
\* rows equal in both keep the order of the select, the order of their ids.
RankedBefore(ps, t, a, b) ==
    \/ FinalScoreNum(ps, t, a) > FinalScoreNum(ps, t, b)
    \/ /\ FinalScoreNum(ps, t, a) = FinalScoreNum(ps, t, b)
       /\ \/ ps[a].indexed_at > ps[b].indexed_at
          \/ ps[a].indexed_at = ps[b].indexed_at /\ ps[a].id < ps[b].id

RECURSIVE SortRows(_, _, _)
SortRows(ps, t, S) ==
    IF S = {} THEN <<>>
    ELSE LET top == CHOOSE u \in S : \A v \in S \ {u} : RankedBefore(ps, t, u, v)
         IN <<top>> \o SortRows(ps, t, S \ {top})

\* get_scored_posts: the uris of the scored, filtered, sorted data frame.
ScoredPosts(ps, t) == SortRows(ps, t, Qualifying(ps, t))

NoCursor == [kind |-> "none", ts |-> 0, cid |-> 0]
EofCursor == [kind |-> "eof", ts |-> 0, cid |-> 0]

\* get_protocol_cursor: f"{timestamp_ms}::{cid}" of the last row of the page
KeyCursor(p) == [kind |-> "key", ts |-> p.indexed_at * MS_PER_HOUR, cid |-> p.cid]

\* handle_protocol_cursor: datetime.fromtimestamp(int(ts) / 1000) is the
\* server's local time, which replace(tzinfo=utc) then reads as utc.
CursorTime(cursor, offset) == cursor.ts \div MS_PER_HOUR + offset

AfterCursor(p, cursor, offset) ==
    \/ p.indexed_at = CursorTime(cursor, offset) /\ p.cid < cursor.cid
    \/ p.indexed_at < CursorTime(cursor, offset)

RECURSIVE FilterRows(_, _, _, _)
FilterRows(ps, df, cursor, offset) ==
    IF df = <<>> THEN <<>>
    ELSE LET rest == FilterRows(ps, Tail(df), cursor, offset)
         IN IF AfterCursor(ps[Head(df)], cursor, offset)
            THEN <<Head(df)>> \o rest ELSE rest

\* handle_protocol_cursor taking 'eof' for a position after the last row.
HandleProtocolCursorMutant(ps, df, cursor, offset) ==
    IF cursor.kind = "eof" THEN <<>>
    ELSE IF cursor.kind # "key" THEN df ELSE FilterRows(ps, df, cursor, offset)
HandleProtocolCursor(ps, df, cursor, offset) ==
    IF cursor.kind # "key" THEN df ELSE FilterRows(ps, df, cursor, offset)

ClampLimit(limit) ==
    IF limit < LIMIT_FLOOR THEN LIMIT_FLOOR
    ELSE IF limit > LIMIT_CEILING THEN LIMIT_CEILING ELSE limit

TakeRows(df, n) == SubSeq(df, 1, IF Len(df) < n THEN Len(df) ELSE n)

\* get_posts: the page and the next cursor.
GetPostsResult(ps, t, cursor, limit, offset) ==
    LET lim == ClampLimit(limit)
        df == HandleProtocolCursor(ps, ScoredPosts(ps, t), cursor, offset)
        page == TakeRows(df, lim)
    IN [feed |-> page,
        cursor |-> IF page = <<>> \/ Len(df) <= lim
                   THEN EofCursor ELSE KeyCursor(ps[page[Len(page)]])]

\* The client calls get_posts with the cursor of the page before.
GetPosts ==
    /\ fCursor.kind # "eof"
    /\ fCalls < MaxCalls
    /\ LET r == GetPostsResult(posts, now, fCursor, fLimit, tzOffset)
       IN /\ served' = served \o r.feed
          /\ lastPage' = r.feed
          /\ fCursor' = r.cursor
    /\ fCalls' = fCalls + 1
    /\ UNCHANGED <<fLimit, tzOffset>>
    /\ UNCHANGED <<storeVars, engVars, streamVars, routeVars, httpVars, syncVars>>

----------------------------------------------------------------------------
(* The web application: get_feed_skeleton -> handler -> get_posts *)

\* The cursor parameter as the request carries it: absent, the text 'eof',
\* or other text, given by the fields that "::" separates; a field is the
\* text of an integer or some other text.
IntField(n) == [isInt |-> TRUE, n |-> n]
OtherField == [isInt |-> FALSE, n |-> 0]

AbsentWire == [tag |-> "absent", fields |-> <<>>]
EofWire == [tag |-> "eof", fields |-> <<>>]
TextWire(fields) == [tag |-> "text", fields |-> fields]

\* f"{timestamp_ms}::{last_row['cid']}", or 'eof', as the response carries it.
FormatCursor(cursor) ==
    IF cursor.kind = "key"
    THEN TextWire(<<IntField(cursor.ts), IntField(cursor.cid)>>)
    ELSE EofWire

InvalidCursor == [kind |-> "invalid", ts |-> 0, cid |-> 0]

\* handle_protocol_cursor, from the text to what it filters by:
\* `not cursor or cursor == CURSOR_EOF` filters nothing;
\* `indexed_at_ts, cid = cursor.split("::")` raises ValueError unless there
\* are exactly two fields, int(indexed_at_ts) raises it for other text, and
\* the except clause logs the error and returns df unfiltered.
ParseCursor(wire) ==
    IF wire.tag = "absent" THEN NoCursor
    ELSE IF wire.tag = "eof" THEN EofCursor
    ELSE IF Len(wire.fields) # 2 THEN InvalidCursor
    ELSE IF ~wire.fields[1].isInt THEN InvalidCursor
    ELSE [kind |-> "key", ts |-> wire.fields[1].n, cid |-> wire.fields[2].n]

\* get_posts and handler: an exception raised on the way (storeOk false: the
\* select of get_scored_posts fails) is caught by `except Exception`, which
\* returns an empty feed with CURSOR_EOF.
Handler(ps, t, wire, limit, offset, storeOk) ==
    IF ~storeOk THEN [cursor |-> EofWire, feed |-> <<>>]
    ELSE LET r == GetPostsResult(ps, t, ParseCursor(wire), limit, offset)
         IN [cursor |-> FormatCursor(r.cursor), feed |-> r.feed]

\* The exception that leaves handler(cursor, limit): none, get_posts and
\* handler catch every Exception.
HandlerRaises(wire, storeOk) == "none"

\* algos.get(feed): the feeds the service generates.
DailySeoFeed == "at://feed/daily-seo"
KnownFeeds == {DailySeoFeed}

NoBody == [cursor |-> AbsentWire, feed |-> <<>>]

Response(status, message, body) ==
    [status |-> status, message |-> message, body |-> body]

\* get_feed_skeleton
GetFeedSkeletonResult(ps, t, feed, wire, limit, offset, storeOk) ==
    IF feed \notin KnownFeeds
    THEN Response(400, "Unsupported algorithm", NoBody)
    ELSE IF limit < LIMIT_FLOOR \/ limit > LIMIT_CEILING
    THEN Response(400, "Invalid limit (must be between 1 and 100)", NoBody)
    ELSE IF HandlerRaises(wire, storeOk) = "ValueError"
    THEN Response(400, "Malformed cursor", NoBody)
    ELSE IF HandlerRaises(wire, storeOk) # "none"
    THEN Response(500, "Internal server error", NoBody)
    ELSE Response(200, "", Handler(ps, t, wire, limit, offset, storeOk))

NoReq == [feed |-> None, cursor |-> AbsentWire, limit |-> 0, storeOk |-> TRUE]
NoResp == Response(0, "", NoBody)

\* The cursor texts a request is made with: none, 'eof', the cursor of a
\* stored item, and texts with one field, with three fields, and with a
\* first field that is not an integer.
WireCursors(ps) ==
    {AbsentWire, EofWire}
    \cup {FormatCursor(KeyCursor(ps[u])) : u \in {v \in DOMAIN ps : Exists(ps[v])}}
    \cup {TextWire(<<IntField(1)>>),
          TextWire(<<IntField(1), IntField(1), IntField(1)>>),
          TextWire(<<OtherField, IntField(1)>>)}

RequestLimits == {LIMIT_FLOOR - 1, LIMIT_FLOOR, MaxLimit, DEFAULT_LIMIT, LIMIT_CEILING + 1}

\* One request to /xrpc/app.bsky.feed.getFeedSkeleton.
GetFeedSkeleton ==
    /\ \E feed \in KnownFeeds \cup {"at://feed/other"},
          wire \in WireCursors(posts),
          limit \in RequestLimits,
          storeOk \in BOOLEAN :
         /\ req' = [feed |-> feed, cursor |-> wire, limit |-> limit,
                    storeOk |-> storeOk]
         /\ resp' = GetFeedSkeletonResult(posts, now, feed, wire, limit,
                                          tzOffset, storeOk)
    /\ UNCHANGED <<storeVars, engVars, streamVars, feedVars, routeVars, syncVars>>

FeedIdle ==
    /\ fLimit = 0
    /\ fCursor = NoCursor
    /\ served = <<>>
    /\ lastPage = <<>>
    /\ fCalls = 0
    /\ tzOffset = 0

----------------------------------------------------------------------------
(* Initial states and specifications *)

\* The ingest client is not running.
StreamIdle ==
    /\ subRow = NoRow
    /\ selfCursor = 0
    /\ conn = "off"
    /\ urlCursor = 0
    /\ srvPos = 0
    /\ head = 0
    /\ frames = <<>>
    /\ failures = 0
    /\ lastWait = 0
    /\ processed = {}
    /\ redelivered = FALSE
    /\ lastOkTime = 0
    /\ wsRaises = FALSE
    /\ faulted = FALSE
    /\ lastFault = "none"

\* No process_event call is running.
EngIdle ==
    /\ rowLock = [u \in URIs |-> Free]
    /\ wpc = [w \in Workers |-> "idle"]
    /\ wcall = [w \in Workers |-> NoCall]
    /\ wpost = [w \in Workers |-> NoPost]
    /\ wcreated = [w \in Workers |-> FALSE]
    /\ nEvents = 0
    /\ outsiderSeen = FALSE
    /\ sent = [u \in URIs |-> NoSent]
    /\ lossy = [u \in URIs |-> FALSE]

RouteIdle ==
    /\ inEvent = NoEvent
    /\ outCall = NoCall

\* No request was made.
HttpIdle ==
    /\ req = NoReq
    /\ resp = NoResp

\* The ingest thread is between two messages.
SyncIdle ==
    /\ hpc = "idle"
    /\ hmsg = 0
    /\ started = {}
    /\ crashes = 0

\* After initialize_database: the tables exist.  No code inserts the row of
\* subscription_state, so a freshly created table has none; a store that
\* was seeded has the row, with a NULL cursor or with the position of the
\* first event, handled by an earlier run.
InitStream ==
    /\ posts = [u \in URIs |-> NoPost]
    /\ nextId = 1
    /\ now = 0
    /\ EngIdle
    /\ subRow \in {NoRow, NullCursor, 1}
    /\ head = CursorOrNone(subRow)
    /\ processed = 1..CursorOrNone(subRow)
    /\ selfCursor = 0
    /\ conn = "boot"
    /\ urlCursor = 0
    /\ srvPos = 0
    /\ frames = <<>>
    /\ failures = 0
    /\ lastWait = 0
    /\ redelivered = FALSE
    /\ lastOkTime = 0
    /\ wsRaises \in BOOLEAN
    /\ faulted = FALSE
    /\ lastFault = "none"
    /\ FeedIdle
    /\ RouteIdle
    /\ HttpIdle
    /\ SyncIdle

NextStream ==
    \/ RunJetstream
    \/ ConnectOk
    \/ ConnectFails
    \/ TransportLoss
    \/ SleepAndStart
    \/ Exhausted
    \/ Deliver
    \/ Produce

SpecStream == InitStream /\ [][NextStream]_vars

\* After initialize_database on an empty store, with process_event called
\* by concurrent workers.
InitEng ==
    /\ posts = [u \in URIs |-> NoPost]
    /\ nextId = 1
    /\ now = 0
    /\ EngIdle
    /\ StreamIdle
    /\ FeedIdle
    /\ RouteIdle
    /\ HttpIdle
    /\ SyncIdle

NextEng ==
    \/ \E w \in Workers, ev \in Events : ProcessEvent(w, ev)
    \/ \E w \in Workers : SelectForUpdate(w)
    \/ \E w \in Workers : FetchFail(w)
    \/ \E w \in Workers : CreateOk(w)
    \/ \E w \in Workers : CreateDuplicate(w)
    \/ \E w \in Workers : UpdateAndCommit(w)
    \/ CleanOldPosts
    \/ Tick

SpecEng == InitEng /\ [][NextEng]_vars

\* The ingest client on a transport that stays up: run_jetstream connects
\* and on_message handles message after message.
InitHandle == InitStream

NextHandle ==
    \/ RunJetstream
    \/ ConnectOk
    \/ Deliver
    \/ Produce

SpecHandle == InitHandle /\ [][NextHandle]_vars

\* update_engagement called by concurrent workers with the events that
\* pass the filter, any statement after its select being able to fail.
InitAtomic == InitEng

NextAtomic ==
    \/ \E w \in Workers, ev \in WellFormedEvents : ProcessEvent(w, ev)
    \/ \E w \in Workers : SelectForUpdate(w)
    \/ \E w \in Workers : FetchFail(w)
    \/ \E w \in Workers : CreateOk(w)
    \/ \E w \in Workers : CreateDuplicate(w)
    \/ \E w \in Workers : UpdateAndCommit(w)
    \/ \E w \in Workers : UpdateFails(w)

SpecAtomic == InitAtomic /\ [][NextAtomic]_vars

\* The ingest thread followed statement by statement, on a transport that
\* stays up, in a process that may be killed and started again.
InitSync == InitStream

NextSync ==
    \/ RunJetstream
    \/ ConnectOk
    \/ Produce
    \/ ReadMessage
    \/ HandlerCursor
    \/ HandlerProcess
    \/ Crash

SpecSync == InitSync /\ [][NextSync]_vars

\* process_event on an empty store.
InitRoute == InitEng

NextRoute ==
    \/ EventArrives
    \/ ProcessEventReturns

SpecRoute == InitRoute /\ [][NextRoute]_vars

\* The web application answers a request for the first page: index() asks
\* for DEFAULT_LIMIT items, a feed client for as few as LIMIT_FLOOR.
ServeRequest ==
    /\ \E limit \in {LIMIT_FLOOR, DEFAULT_LIMIT} :
         /\ fLimit' = limit
         /\ lastPage' = GetPostsResult(posts, now, NoCursor, limit, tzOffset).feed
    /\ UNCHANGED <<fCursor, served, fCalls, tzOffset>>
    /\ UNCHANGED <<storeVars, engVars, streamVars, routeVars, httpVars, syncVars>>

\* main(): after initialize_database, the ingest thread runs run_jetstream
\* (here on a transport that stays up), the web application serves
\* requests and the clock advances.  Nothing main() starts calls
\* clean_old_posts.
InitService == InitStream

NextService ==
    \/ NextHandle
    \/ Tick
    \/ ServeRequest

FairService == WF_vars(NextService)

SpecService == InitService /\ [][NextService]_vars /\ FairService

\* The rows of the frozen data sets: liked once or four times, by
\* one registry member or by both, stored 1, 3, 12, 24 or 25 hours ago, the
\* interactions having come with the row.
FeedAges == {1, 3, 12, 24, 25}
FeedNow == POST_LIFETIME_HOURS + SetMax(FeedAges)

FeedRow(u, age, likes, quorum) ==
    [id |-> CidOf(u), cid |-> CidOf(u), indexed_at |-> FeedNow - age,
     likes_count |-> likes, reposts_count |-> 0, replies_count |-> 0,
     engaged_authors |-> SubSeq(<<"did:a1", "did:a2">>, 1, quorum),
     interaction_timestamps |-> [i \in 1..quorum |-> FeedNow - age]]

\* A store of one item: 10 likes, 5 reposts and 2 replies by three actors,
\* stored DECAY_MIDPOINT hours ago, the interactions having come with it.
ExampleRow ==
    [id |-> 1, cid |-> 1, indexed_at |-> FeedNow - DECAY_MIDPOINT,
     likes_count |-> 10, reposts_count |-> 5, replies_count |-> 2,
     engaged_authors |-> <<"did:a1", "did:a2", "did:a3">>,
     interaction_timestamps |-> [i \in 1..3 |-> FeedNow - DECAY_MIDPOINT]]

ExampleStore == [u \in FeedURIs |-> IF u = "at://u1" THEN ExampleRow ELSE NoPost]

\* A store no sweep has run on: an item stored POST_LIFETIME_HOURS + 1 hours
\* ago that both registry members engaged with an hour ago, beside an item
\* stored three hours ago.
StaleRow ==
    [id |-> 1, cid |-> 1, indexed_at |-> FeedNow - (POST_LIFETIME_HOURS + 1),
     likes_count |-> 4, reposts_count |-> 0, replies_count |-> 0,
     engaged_authors |-> <<"did:a1", "did:a2">>,
     interaction_timestamps |-> <<FeedNow - 1, FeedNow - 1>>]

StaleStore ==
    [u \in FeedURIs |->
        CASE u = "at://u1" -> StaleRow
          [] u = "at://u2" -> FeedRow(u, 3, 1, 2)
          [] OTHER -> NoPost]

InitFeed ==
    /\ \/ \E age \in [FeedURIs -> FeedAges], likes \in [FeedURIs -> {1, 4}],
             quorum \in [FeedURIs -> 1..2] :
            posts = [u \in FeedURIs |-> FeedRow(u, age[u], likes[u], quorum[u])]
       \/ posts = ExampleStore
       \/ posts = StaleStore
    /\ nextId = Cardinality(FeedURIs) + 1
    /\ now = FeedNow
    /\ EngIdle
    /\ StreamIdle
    /\ fLimit \in 1..MaxLimit
    /\ fCursor = NoCursor
    /\ served = <<>>
    /\ lastPage = <<>>
    /\ fCalls = 0
    /\ tzOffset \in {0, 1}
    /\ RouteIdle
    /\ HttpIdle
    /\ SyncIdle

NextFeed == GetPosts

\* The web application over a frozen store: the stale store, the store of
\* one item, and the stores of three items liked once by both registry
\* members, stored one or three hours ago.
InitHttp ==
    /\ \/ \E age \in [FeedURIs -> {1, 3}] :
            posts = [u \in FeedURIs |-> FeedRow(u, age[u], 1, 2)]
       \/ posts = ExampleStore
       \/ posts = StaleStore
    /\ nextId = Cardinality(FeedURIs) + 1
    /\ now = FeedNow
    /\ EngIdle
    /\ StreamIdle
    /\ FeedIdle
    /\ RouteIdle
    /\ HttpIdle
    /\ SyncIdle

NextHttp == GetFeedSkeleton

SpecHttp == InitHttp /\ [][NextHttp]_vars

SpecFeed == InitFeed /\ [][NextFeed]_vars

----------------------------------------------------------------------------
(* Claims about the engagement aggregator, checked under SpecEng *)

NoDuplicates(s) == \A i, j \in 1..Len(s) : s[i] = s[j] => i = j

Settled(u) == \A w \in Workers : wcall[w].uri # u

CounterOf(p, engagement_type) ==
    CASE engagement_type = "like" -> p.likes_count
      [] engagement_type = "repost" -> p.reposts_count
      [] engagement_type = "reply" -> p.replies_count

\* C1: once every call routed to a uri has returned, and no content fetch
\* failed and no sweep deleted the row, the stored item counts every call:
\* each counter equals the number of calls of its kind and the quorum set
\* holds exactly the distinct actors, whatever the interleaving.
C1_NoLostUpdate ==
    \A u \in URIs :
        (Settled(u) /\ ~lossy[u]) =>
            /\ posts[u].likes_count = sent[u].like
            /\ posts[u].reposts_count = sent[u].repost
            /\ posts[u].replies_count = sent[u].reply
            /\ Range(posts[u].engaged_authors) = sent[u].actors
            /\ Len(posts[u].engaged_authors) = Cardinality(sent[u].actors)

\* C8: engaged_authors never holds an actor twice, and a call by an actor
\* already in it raises the counter of its kind by one and leaves
\* engaged_authors and interaction_timestamps as they were.
C8_ActorOnce ==
    [][/\ \A u \in URIs : NoDuplicates(posts'[u].engaged_authors)
       /\ \A w \in Workers :
            LET u == wcall[w].uri IN
            (/\ wpc[w] = "update" /\ wpc'[w] = "idle"
             /\ wcall[w].author_did \in Range(posts[u].engaged_authors))
            => /\ posts'[u].engaged_authors = posts[u].engaged_authors
               /\ posts'[u].interaction_timestamps = posts[u].interaction_timestamps
               /\ CounterOf(posts'[u], wcall[w].engagement_type)
                    = CounterOf(posts[u], wcall[w].engagement_type) + 1
      ]_vars

\* C8 witness: an item whose counters record more calls than it has quorum
\* members: an actor already in the quorum set has engaged again.
C8_Witness ==
    \E u \in URIs :
        /\ Len(posts[u].engaged_authors) >= 1
        /\ posts[u].likes_count + posts[u].reposts_count + posts[u].replies_count
             > Len(posts[u].engaged_authors)

\* C9: the quorum set of every stored item, and of every row a running
\* call has read or inserted, is a subset of the Trusted Author Registry.
C9_QuorumInRegistry ==
    /\ \A u \in URIs : Range(posts[u].engaged_authors) \subseteq AuthorDids
    /\ \A w \in Workers : Range(wpost[w].engaged_authors) \subseteq AuthorDids

\* C9 witness: an outsider's event was handled and an item has a quorum.
C9_Witness ==
    /\ outsiderSeen
    /\ \E u \in URIs : Len(posts[u].engaged_authors) >= 1

\* C10: the three counters of a stored item are never negative, and no step
\* (an update, the sweep, the clock) lowers a counter of an item that is
\* stored before and after the step.
C10_CountersMonotone ==
    [][\A u \in URIs :
         /\ posts'[u].likes_count >= 0
         /\ posts'[u].reposts_count >= 0
         /\ posts'[u].replies_count >= 0
         /\ (Exists(posts[u]) /\ posts'[u].id = posts[u].id) =>
               /\ posts'[u].likes_count >= posts[u].likes_count
               /\ posts'[u].reposts_count >= posts[u].reposts_count
               /\ posts'[u].replies_count >= posts[u].replies_count
      ]_vars

\* C10 witness: an update on an existing item has raised its counters, from
\* the one of the call that created it, to two.
C10_Witness ==
    \E u \in URIs :
        /\ Exists(posts[u])
        /\ posts[u].likes_count + posts[u].reposts_count + posts[u].replies_count >= 2

\* C12: a call that found no row for its uri and whose content fetch failed
\* on all of its FETCH_ATTEMPTS attempts returns (its caller goes on) with no
\* row created for the uri and the store as it was; the fetch gives None
\* exactly when every attempt failed.
C12_FetchFailureAborts ==
    [][\A w \in Workers :
            LET u == wcall[w].uri IN
            (wpc[w] = "create" /\ wpc'[w] = "idle" /\ lossy'[u]) =>
                /\ \A o \in FetchOutcomes :
                     (fetch_post_content(o) = None)
                        <=> (\A i \in 1..FETCH_ATTEMPTS : ~o[i])
                /\ posts' = posts
                /\ nextId' = nextId
                /\ rowLock' = rowLock
                /\ subRow' = subRow
                /\ wcall'[w] = NoCall
      ]_vars

\* C12 witness: before any sweep could run, a call for a uri has ended with
\* the fetch failed and the uri has no row.
C12_Witness ==
    \E u \in URIs :
        /\ lossy[u]
        /\ sent[u] # NoSent
        /\ ~Exists(posts[u])
        /\ Settled(u)
        /\ now = 0

\* C29: every stored item, and every row a running call has read or
\* inserted, has as many interaction timestamps as quorum members.
C29_TimestampPerMember ==
    /\ \A u \in URIs :
         Len(posts[u].interaction_timestamps) = Len(posts[u].engaged_authors)
    /\ \A w \in Workers :
         Len(wpost[w].interaction_timestamps) = Len(wpost[w].engaged_authors)

\* C29 witness: an item has two quorum members, the second of whom engaged
\* after the clock had advanced.
C29_Witness ==
    \E u \in URIs :
        /\ Len(posts[u].engaged_authors) = 2
        /\ Len(posts[u].interaction_timestamps) = 2
        /\ posts[u].interaction_timestamps[2] > posts[u].interaction_timestamps[1]

\* C30: the commit of an update_engagement call on an item that was stored
\* before the call leaves the item's id, cid and indexed_at and its other
\* two counters as they were and changes no other item; whether the item is
\* expired is the same before and after.
C30_UpdateFrame ==
    [][\A w \in Workers :
         LET u == wcall[w].uri
             kind == wcall[w].engagement_type
         IN (wpc[w] = "update" /\ wpc'[w] = "idle" /\ ~wcreated[w]) =>
              /\ posts'[u].id = posts[u].id
              /\ posts'[u].cid = posts[u].cid
              /\ posts'[u].indexed_at = posts[u].indexed_at
              /\ \A k \in {"like", "repost", "reply"} \ {kind} :
                    CounterOf(posts'[u], k) = CounterOf(posts[u], k)
              /\ CounterOf(posts'[u], kind) = CounterOf(posts[u], kind) + 1
              /\ \A v \in URIs \ {u} : posts'[v] = posts[v]
              /\ Expired(posts'[u], now') <=> Expired(posts[u], now)
      ]_vars

\* C30 witness: an item stored before the clock advanced was engaged with
\* after it: it has two engagements and is expired.
C30_Witness ==
    \E u \in URIs :
        /\ Expired(posts[u], now)
        /\ posts[u].likes_count + posts[u].reposts_count + posts[u].replies_count
             >= 2
        /\ \E i \in 1..Len(posts[u].interaction_timestamps) :
              posts[u].interaction_timestamps[i] > posts[u].indexed_at

EngagementsOf(p) == p.likes_count + p.reposts_count + p.replies_count

\* C31: update_engagement is all-or-nothing and returns normally.  A call
\* that leaves its update statement returns to its caller and releases its
\* row lock; it leaves every other item as it was and its own item either
\* exactly as it was before the call or with the counter of its kind
\* raised by one.  Where a statement failed the table is as it was: a
\* row the call had inserted is gone.  No stored item is without an
\* engagement, as a row inserted and not updated would be.
C31_AllOrNothing ==
    [][/\ \A w \in Workers :
            LET u == wcall[w].uri
                kind == wcall[w].engagement_type
            IN (wpc[w] = "update" /\ wpc'[w] # "update") =>
                 /\ wpc'[w] = "idle"
                 /\ wcall'[w] = NoCall
                 /\ rowLock'[u] = Free
                 /\ \A v \in URIs \ {u} : posts'[v] = posts[v]
                 /\ \/ posts'[u] = posts[u]
                    \/ /\ Exists(posts'[u])
                       /\ CounterOf(posts'[u], kind)
                            = CounterOf(IF wcreated[w] THEN wpost[w] ELSE posts[u],
                                        kind) + 1
                 /\ (lossy'[u] /\ ~lossy[u]) => posts' = posts
                 /\ (wcreated[w] /\ posts'[u] = posts[u]) => ~Exists(posts'[u])
       /\ \A u \in URIs : Exists(posts'[u]) => EngagementsOf(posts'[u]) >= 1
      ]_vars

\* C31 witness: a call that had inserted the row of its uri has ended in a
\* failure: the insert took an id and the table holds no row.
C31_Witness ==
    /\ nextId > 1
    /\ \A u \in URIs : ~Exists(posts[u])
    /\ \A w \in Workers : wpc[w] = "idle"
    /\ \E u \in URIs : lossy[u]

\* No other worker is running a call on the uri of worker w's call.
AloneOnSubject(w) ==
    \A x \in Workers \ {w} : wcall[x].uri # wcall[w].uri

----------------------------------------------------------------------------
(* Claims about the ingest client, checked under SpecStream *)

\* C4: a reconnection made by on_close opens the stream with the cursor
\* stored by the most recently handled message, and no event is handed to
\* process_event a second time.
C4_ResumeFromPersisted ==
    [][/\ (conn = "starting" /\ conn' = "open" /\ frames # <<>>)
            => urlCursor' = CursorOrNone(subRow)
       /\ ~redelivered'
      ]_vars

\* C5: where a failed start() raises, on_close never makes more than five
\* failed reconnection attempts in a row, the wait before the attempt that
\* fails as number k of the row is 2^(k-1) seconds, and the on_close call
\* that has used up its attempts ends the client with the fatal error: no
\* further attempt follows.
C5_BoundedBackoff ==
    [][wsRaises =>
        /\ failures' <= RECONNECT_ATTEMPTS
        /\ (failures' = failures + 1) => lastWait = 2 ^ failures
        /\ (conn = "down" /\ frames # <<>> /\ frames' # frames
              /\ frames[Len(frames)] = RECONNECT_ATTEMPTS)
             => conn' = "fatal"
      ]_vars

\* C6: after a message with a time_us was handled and its cursor statement
\* ran without an error, the stored cursor of 'jetstream' is that time_us.
C6_CursorPersisted ==
    lastOkTime # 0 => subRow = lastOkTime

\* C7: the stored cursor never decreases.
C7_CursorMonotone ==
    [][CursorOrNone(subRow') >= CursorOrNone(subRow)]_vars

\* C15: the handling of a message leaves the connection open whatever
\* failed in it (decoding, the handler, the cursor statement, the
\* aggregation), and a message handled without a failure is handed to
\* process_event and applied, also after the handling of an earlier message
\* has failed.
C15_FailureDoesNotStop ==
    [][(conn = "open" /\ srvPos' = srvPos + 1) =>
         /\ conn' = "open"
         /\ frames' = frames
         /\ (lastFault' = "none") =>
               /\ srvPos \in processed'
               /\ \E fetchOk \in BOOLEAN :
                    posts' = AppliedPosts(posts, Route(EventAt(srvPos)), now,
                                          nextId, fetchOk)
      ]_vars

\* C15 witness: the repost at position 3 was applied without a failure after
\* the handling of an earlier message had failed.
C15_Witness ==
    /\ faulted
    /\ lastFault = "none"
    /\ srvPos = 4
    /\ conn = "open"
    /\ posts["at://u1"].reposts_count >= 1

----------------------------------------------------------------------------
(* Claims about the message handler, checked under SpecSync *)

\* C27: messages reach the handler one at a time and in arrival order: a
\* message is read only when the handler call of the message before has
\* returned, the message read is the next of the connection and goes
\* straight into the handler, nothing is read while the handler runs, and
\* the message in the handler is always the last one read (none waits in
\* between).
C27_OneAtATimeInOrder ==
    [][/\ (started' # started
             \/ (conn = "open" /\ conn' = "open" /\ srvPos' = srvPos + 1)) =>
            /\ hpc = "idle"
            /\ hmsg' = srvPos
            /\ hpc' = "cursor"
            /\ started' = started \cup {srvPos}
       /\ (hpc # "idle" /\ conn' = conn) => srvPos' = srvPos
       /\ (hpc' # "idle") => hmsg' = srvPos' - 1
       /\ (processed' # processed) => processed' = processed \cup {srvPos - 1}
      ]_vars

\* C27 witness: the handler has returned from the first two messages of a
\* connection and is running on the third.
C27_Witness ==
    /\ hpc = "process"
    /\ hmsg = 3
    /\ {1, 2} \subseteq processed
    /\ crashes = 0

\* C28: the stored cursor never reaches the position of a message the
\* handler was called with before process_event has run on that message,
\* in any state, so that a process started again from the stored cursor
\* is sent every message process_event has not run on.
C28_CursorAfterProcessing ==
    \A p \in started :
        p <= CursorOrNone(subRow) => p \in processed

----------------------------------------------------------------------------
(* Claims about the feed paginator, checked under SpecFeed *)

\* C2: when the traversal of a frozen data set has followed the cursors to
\* the end-of-results value, the pages served, concatenated, are the
\* qualifying items in final-score order: each one once, none missing.
C2_CompletePagination ==
    fCursor.kind = "eof" => served = ScoredPosts(posts, now)

\* C3: a get_posts call with the cursor of the page before returns the items
\* that follow the last item of that page in the score order of the data
\* frame, as many as the limit allows: none at or before that position, none
\* after it skipped.
C3_ResumeAfterLast ==
    [][(fCursor.kind = "key" /\ fCalls' = fCalls + 1) =>
         LET df == ScoredPosts(posts, now)
             last == lastPage[Len(lastPage)]
         IN \A i \in 1..Len(df) :
              df[i] = last =>
                lastPage' = TakeRows(SubSeq(df, i + 1, Len(df)), ClampLimit(fLimit))
      ]_vars

\* C16: an item whose quorum set has fewer than MIN_AUTHOR_ENGAGEMENT
\* actors is not in the scored data frame and in no page get_posts has
\* returned, whatever its counters, interactions and age.
C16_GatedNeverRanked ==
    \A u \in FeedURIs :
        Len(posts[u].engaged_authors) < MIN_AUTHOR_ENGAGEMENT =>
            /\ u \notin Range(served)
            /\ u \notin Range(ScoredPosts(posts, now))

\* C16 witness: the traversal has served a page and reached the end while
\* the store held a one hour old item with four likes and one actor.
C16_Witness ==
    /\ fCursor.kind = "eof"
    /\ served # <<>>
    /\ \E u \in FeedURIs :
         /\ Len(posts[u].engaged_authors) = 1
         /\ posts[u].likes_count = 4
         /\ now - posts[u].indexed_at = 1

\* The store that holds the item of u as posts does, and no other item.
Alone(u) == [v \in FeedURIs |-> IF v = u THEN posts[v] ELSE NoPost]

\* C17: the final score of a scored item, and whether it passes
\* MIN_ENGAGEMENT_SCORE, are the same in the store and in the store that
\* holds this item only: the other items have no part in it.
C17_ScoreOfItemAlone ==
    \A u \in BaseRows(posts, now) :
        /\ WeightedNum(posts, now, u) * WeightedDen(Alone(u), now)
             = WeightedNum(Alone(u), now, u) * WeightedDen(posts, now)
        /\ PassesScore(posts, now, u) <=> PassesScore(Alone(u), now, u)

\* The final score in thousandths, rounded down.
ScorePerMille(ps, t, u) ==
    (WeightedNum(ps, t, u) * TimeDecay(t - ps[u].indexed_at))
        \div (WeightedDen(ps, t) * (DECAY_SCALE \div 1000))

\* C18: the final score is (base * 0.4 + quorum * 0.4 + velocity * 0.3)
\* * time_decay with base = log10(max(magnitude, 1)): the item with 10 likes,
\* 5 reposts and 2 replies has magnitude 37, and with three actors, velocity
\* 0 and an age of DECAY_MIDPOINT hours its final score is 0.374, to a
\* thousandth.
C18_WeightedLogScore ==
    \A u \in FeedURIs :
        (/\ posts[u].likes_count = 10
         /\ posts[u].reposts_count = 5
         /\ posts[u].replies_count = 2
         /\ Len(posts[u].engaged_authors) = 3
         /\ Velocity2(posts[u], now) = 0
         /\ now - posts[u].indexed_at = DECAY_MIDPOINT)
        => /\ Engagement(posts[u]) = 37
           /\ u \in BaseRows(posts, now)
           /\ ScorePerMille(posts, now, u) \in 373..375

\* The interactions of an item that are at most h hours old.
CountWithin(p, t, h) ==
    Cardinality({i \in 1..Len(p.interaction_timestamps) :
                    t - p.interaction_timestamps[i] <= h})

\* C19: the velocity of an item combines, with positive weights, the rates
\* of its interactions over the 1h, 6h and 24h windows (the count inside
\* the window over its length).  Whatever the weights, such a velocity is 0
\* for an item without timestamps and positive exactly when an interaction
\* lies inside the widest window: this is what the formula states.
C19_ThreeWindowVelocity ==
    \A u \in FeedURIs :
        Exists(posts[u]) =>
            /\ (posts[u].interaction_timestamps = <<>>
                   => Velocity2(posts[u], now) = 0)
            /\ (Velocity2(posts[u], now) > 0
                   <=> \E h \in {1, 6, 24} : CountWithin(posts[u], now, h) > 0)

AgeOf(u) == now - posts[u].indexed_at

\* C20: time_decay is exactly one half for an item whose age is
\* DECAY_MIDPOINT hours, and of two items the older never has the larger
\* time_decay; the same over every whole age of the table and beyond.
C20_DecayHalfAtMidpoint ==
    /\ \A u \in FeedURIs :
         (Exists(posts[u]) /\ AgeOf(u) = DECAY_MIDPOINT)
            => 2 * TimeDecay(AgeOf(u)) = DECAY_SCALE
    /\ \A u, v \in FeedURIs :
         (Exists(posts[u]) /\ Exists(posts[v]) /\ AgeOf(u) <= AgeOf(v))
            => TimeDecay(AgeOf(u)) >= TimeDecay(AgeOf(v))
    /\ \A a \in 0..(Len(DecayTable) + 1) : TimeDecay(a) >= TimeDecay(a + 1)

\* C20 witness: get_posts has scored and served an item DECAY_MIDPOINT hours
\* old and a younger one.
C20_Witness ==
    \E u, v \in Range(served) :
        /\ AgeOf(u) = DECAY_MIDPOINT
        /\ AgeOf(v) < DECAY_MIDPOINT

\* C21: every item of every page get_posts has returned was stored at most
\* POST_LIFETIME_HOURS ago and has a final score of MIN_ENGAGEMENT_SCORE or
\* more, also while the store holds expired items no sweep has removed.
C21_PageWithinWindowAndScore ==
    \A i \in 1..Len(served) :
        LET u == served[i] IN
        /\ Exists(posts[u])
        /\ posts[u].indexed_at >= now - POST_LIFETIME_HOURS
        /\ FinalScoreNum(posts, now, u) * 100
              >= MIN_ENGAGEMENT_SCORE_HUNDREDTHS * FinalScoreDen(posts, now)

\* C21 witness: the traversal has served an item and reached the end while
\* the store held an expired item that passes the quorum gate and an item
\* inside the window whose score is under the minimum.
C21_Witness ==
    /\ fCursor.kind = "eof"
    /\ served # <<>>
    /\ \E u, v \in FeedURIs :
         /\ Expired(posts[u], now)
         /\ PassesAuthorGate(posts[u])
         /\ v \in BaseRows(posts, now)
         /\ ~PassesScore(posts, now, v)

\* Two scored items with the same final score.
EqualScore(u, v) ==
    /\ u # v
    /\ FinalScoreNum(posts, now, u) = FinalScoreNum(posts, now, v)

Occurrences(seq, x) == Cardinality({i \in 1..Len(seq) : seq[i] = x})

\* C22: items with equal final scores are ordered by a key that is unique
\* per item and is the key the cursor carries and compares: of two such
\* items the one ranked second lies after the cursor made from the first
\* and the first does not lie after the cursor made from the second, and a
\* traversal that has reached the end has served each of them exactly once.
\* (The server's time zone is utc, so that the cursor's timestamp is read
\* back as written.)
C22_StableTieOrder ==
    tzOffset = 0 =>
        \A u, v \in Qualifying(posts, now) :
            (EqualScore(u, v) /\ RankedBefore(posts, now, u, v)) =>
                /\ AfterCursor(posts[v], KeyCursor(posts[u]), tzOffset)
                /\ ~AfterCursor(posts[u], KeyCursor(posts[v]), tzOffset)
                /\ fCursor.kind = "eof" =>
                      /\ Occurrences(served, u) = 1
                      /\ Occurrences(served, v) = 1

\* The items of the ranking that come after item x.
RankedAfter(df, x) ==
    {df[j] : j \in {k \in 1..Len(df) : \E i \in 1..(k - 1) : df[i] = x}}

\* C25: the cursor a get_posts call returns is 'eof' exactly when no
\* qualifying item remains after the page it returns: an empty page comes
\* with 'eof', a page ending with the last item of the ranking comes with
\* 'eof', and a page after which the ranking goes on comes with another
\* cursor.  (The server's time zone is utc.)
C25_EofIffNothingRemains ==
    [][(fCalls' = fCalls + 1 /\ tzOffset = 0) =>
         /\ (lastPage' = <<>>) => fCursor'.kind = "eof"
         /\ (lastPage' # <<>>) =>
               ((fCursor'.kind = "eof")
                  <=> (RankedAfter(ScoredPosts(posts, now),
                                   lastPage'[Len(lastPage')]) = {}))
      ]_vars

----------------------------------------------------------------------------
(* Claims about the web application, checked under SpecHttp *)

\* A cursor text that is neither absent nor 'eof' and is not
\* "<integer>::<cid>".
Malformed(wire) ==
    /\ wire.tag = "text"
    /\ \/ Len(wire.fields) # 2
       \/ ~wire.fields[1].isInt

ValidRequest(r) ==
    /\ r.feed \in KnownFeeds
    /\ r.limit >= LIMIT_FLOOR
    /\ r.limit <= LIMIT_CEILING

\* C23: a request for a feed page whose cursor is malformed (no "::", more
\* than one "::", a timestamp that is not an integer), and that is valid
\* otherwise, is answered with status 400 'Malformed cursor' and with no
\* page of results.
C23_MalformedCursorRejected ==
    (ValidRequest(req) /\ Malformed(req.cursor) /\ req.storeOk) =>
        /\ resp.status = 400
        /\ resp.message = "Malformed cursor"
        /\ resp.body.feed = <<>>

\* C24: a request that is valid and whose serving fails inside (the store
\* raises while the items are read) is answered with status 500, not with
\* a client error and not with a successful empty page carrying the
\* end-of-results cursor.
C24_InternalFailureIs500 ==
    (ValidRequest(req) /\ ~Malformed(req.cursor) /\ ~req.storeOk) =>
        /\ resp.status = 500
        /\ ~(resp.status = 200 /\ resp.body.feed = <<>>
                /\ resp.body.cursor = EofWire)

\* C32: a request whose cursor is 'eof' is answered like a request without
\* a cursor: with the first page of the ranking (as many of its first items
\* as the limit allows, not an empty page while the ranking has items) and
\* with the cursor that follows that page.
C32_EofCursorRestarts ==
    (ValidRequest(req) /\ req.cursor = EofWire /\ req.storeOk) =>
        LET df == ScoredPosts(posts, now)
            n == IF Len(df) < req.limit THEN Len(df) ELSE req.limit
        IN /\ resp.status = 200
           /\ resp.body.feed = SubSeq(df, 1, n)
           /\ (df # <<>>) => resp.body.feed # <<>>
           /\ resp.body = Handler(posts, now, AbsentWire, req.limit, tzOffset, TRUE)

\* C32 witness: a request with the cursor 'eof' and limit 1 on a store of
\* three ranked items was answered with one item and a cursor to go on
\* with.
C32_Witness ==
    /\ req.cursor = EofWire
    /\ req.feed \in KnownFeeds
    /\ req.storeOk
    /\ req.limit = 1
    /\ Len(ScoredPosts(posts, now)) = 3
    /\ Len(resp.body.feed) = 1
    /\ resp.body.cursor.tag = "text"

----------------------------------------------------------------------------
(* Claims about the running service, checked under SpecService *)

\* C11: while the service runs, a stored item whose age exceeds
\* POST_LIFETIME_HOURS is eventually deleted from the store.
C11_ExpiredEventuallyDeleted ==
    \A u \in URIs : Expired(posts[u], now) ~> ~Exists(posts[u])

----------------------------------------------------------------------------
(* Claims about the event filter and router, checked under SpecRoute *)

\* The five checks the filter is specified by.
Accepted(ev) ==
    /\ ev.kind = "commit"
    /\ ev.did \in AuthorDids
    /\ ev.collection \in {Like, PostColl, Repost}
    /\ ev.operation = "create"
    /\ ev.rtype = ev.collection

\* C13: a run of process_event calls update_engagement only when the event
\* passes all five checks (kind, registry, collection, operation, $type),
\* and for an event failing any of them it returns with no call made and the
\* posts table as it was.
C13_OnlyAcceptedRouted ==
    [][(inEvent # NoEvent /\ inEvent' = NoEvent) =>
         /\ (outCall' # NoCall => Accepted(inEvent))
         /\ (~Accepted(inEvent) =>
                /\ outCall' = NoCall
                /\ posts' = posts
                /\ nextId' = nextId)
      ]_vars

\* C13 witness: process_event has returned from its second event, an event
\* failing a check, with the item made by the first event still stored.
C13_Witness ==
    /\ inEvent = NoEvent
    /\ nEvents = 2
    /\ outCall = NoCall
    /\ \E u \in URIs : Exists(posts[u])

\* C14: for an accepted event with a subject the call made is
\* (subject uri, 'like', actor) for a like, (subject uri, 'repost', actor)
\* for a repost and (parent uri, 'reply', actor) for a post that is a reply;
\* a post that is not a reply makes no call.
C14_RoutedTriple ==
    [][(inEvent # NoEvent /\ inEvent' = NoEvent /\ Accepted(inEvent)
            /\ inEvent.hasCommit) =>
         LET ev == inEvent
             triple(type) == [uri |-> ev.target, engagement_type |-> type,
                              author_did |-> ev.did]
         IN /\ (ev.collection = Like /\ ev.target # None)
                  => outCall' = triple("like")
            /\ (ev.collection = Repost /\ ev.target # None)
                  => outCall' = triple("repost")
            /\ (ev.collection = PostColl /\ ev.hasReply /\ ev.target # None)
                  => outCall' = triple("reply")
            /\ (ev.collection = PostColl /\ ~ev.hasReply)
                  => (outCall' = NoCall /\ posts' = posts)
      ]_vars

\* C14 witness: a reply to at://u2 was routed after another call.
C14_Witness ==
    /\ inEvent = NoEvent
    /\ nEvents = 2
    /\ outCall.engagement_type = "reply"
    /\ outCall.uri = "at://u2"
    /\ posts["at://u2"].replies_count >= 1

====
